---- MODULE Spec2Model ----
(***************************************************************************)
(* Flight price checker (scripts/check-flights.js) and its bulk alert      *)
(* sender (scripts/email-alerts.js).                                       *)
(*                                                                         *)
(* Texts are sequences of one-character strings.  Prices are integers in   *)
(* minor units (cents); times are integers in milliseconds.                *)
(***************************************************************************)
EXTENDS Integers, Sequences, FiniteSets, TLC

VARIABLES
  now,              \* wall clock, milliseconds
  user_preferences, \* table user_preferences: user -> row
  flight_searches,  \* table flight_searches: id -> row
  flight_results,   \* table flight_results: sequence of persisted rows
  pc,               \* position of the checker process
  searches,         \* the rows the due-search query returned (ids, in order)
  idx,              \* position of the for-loop in searches
  googlePrice,      \* result of checkGoogleFlights for the current search
  skyscannerPrice,  \* result of checkSkyscanner for the current search
  kayakPrice,       \* result of checkKayak for the current search
  saved,            \* the insert saveFlightResults made for the current search
  dealsFound,       \* module-level deal map, in key insertion order
  processedCount,
  failedCount,
  alerts,           \* calls of sendBulkFlightAlert, in order, with their outcome
  taskLog,          \* history: one record per search the loop has finished
  runs,             \* number of checker processes started
  faults,           \* number of environment faults injected
  browser,          \* the run's puppeteer browser is launched and not closed
  pages,            \* number of open pages of the browser
  peakPages,        \* history: the most pages open at the same time
  responses,        \* what the run-now route answered, one per request
  exitCodes,        \* exit code of every checker process that has ended
  cand,             \* price parser harness: the candidate text
  parsed,           \* price parser harness: what parsePrice returned
  tripIn,           \* date harness: today, the weekdays and the horizon
  trips,            \* date harness: what the calls so far returned
  second            \* a checker process started while another one is running

vars == <<now, user_preferences, flight_searches, flight_results, pc, searches,
          idx, googlePrice, skyscannerPrice, kayakPrice, saved, dealsFound,
          processedCount, failedCount, alerts, taskLog, runs, faults, browser,
          pages, peakPages, responses, exitCodes, cand, parsed, tripIn,
          trips, second>>

runVars == <<now, user_preferences, flight_searches, flight_results, pc,
             searches, idx, googlePrice, skyscannerPrice, kayakPrice, saved,
             dealsFound, processedCount, failedCount, alerts, taskLog, runs,
             faults, browser, pages, peakPages, responses, exitCodes>>

\* JavaScript null: a missing text is the one-token sequence below, a missing
\* price is 0 (the callers test both for falsiness only, and 0 is falsy too),
\* a missing timestamp (SQL NULL) is 0.
NoText == <<"null">>
NoPrice == 0
NoTime == 0

(***************************************************************************)
(* Characters and small text helpers                                       *)
(***************************************************************************)
Euro == "€"
Dollar == "$"
Pound == "£"
Space == " "

DigitChars == {"0", "1", "2", "3", "4", "5", "6", "7", "8", "9"}

IsDigit(c) == c \in DigitChars

DigitVal(c) ==
  CASE c = "0" -> 0 [] c = "1" -> 1 [] c = "2" -> 2 [] c = "3" -> 3
    [] c = "4" -> 4 [] c = "5" -> 5 [] c = "6" -> 6 [] c = "7" -> 7
    [] c = "8" -> 8 [] c = "9" -> 9

RECURSIVE NatOf(_)
\* decimal value of a sequence of digit characters
NatOf(ds) ==
  IF ds = <<>> THEN 0
  ELSE 10 * NatOf(SubSeq(ds, 1, Len(ds) - 1)) + DigitVal(ds[Len(ds)])

\* number of consecutive digits of s starting at position i, at most cap
RECURSIVE DigitRun(_, _, _)
DigitRun(s, i, cap) ==
  IF cap = 0 \/ i > Len(s) \/ ~IsDigit(s[i]) THEN 0
  ELSE 1 + DigitRun(s, i + 1, cap - 1)

\* position of the first digit of s at or after i, 0 when there is none
RECURSIVE FirstDigit(_, _)
FirstDigit(s, i) ==
  IF i > Len(s) THEN 0
  ELSE IF IsDigit(s[i]) THEN i
  ELSE FirstDigit(s, i + 1)

(***************************************************************************)
(* parsePrice                                                              *)
(***************************************************************************)
MinFare == 10
MaxFare == 2000
MaxIntDigits == 4
FracDigits == 2

\* priceText.match(/(\d{1,4}(?:[.,]\d{2})?)/): the leftmost match, greedy.
\* Returns [int |-> digits, frac |-> digits or <<>>]; int is empty without a match.
NumberMatch(priceText) ==
  LET i == FirstDigit(priceText, 1)
      k == DigitRun(priceText, i, MaxIntDigits)
      j == i + k
      hasFrac == /\ j + FracDigits <= Len(priceText)
                 /\ priceText[j] \in {".", ","}
                 /\ DigitRun(priceText, j + 1, FracDigits) = FracDigits
  IN IF i = 0 THEN [int |-> <<>>, frac |-> <<>>]
     ELSE [int  |-> SubSeq(priceText, i, j - 1),
           frac |-> IF hasFrac THEN SubSeq(priceText, j + 1, j + FracDigits)
                    ELSE <<>>]

\* parseFloat(numberMatch[1].replace(',', '.')), as a number of hundredths
ParseFloatCents(m) ==
  100 * NatOf(m.int) + (IF m.frac = <<>> THEN 0 ELSE NatOf(m.frac))

MutParsePriceNoBand(priceText) ==
  IF priceText = NoText \/ priceText = <<>> THEN NoPrice
  ELSE LET m == NumberMatch(priceText)
       IN IF m.int = <<>> THEN NoPrice ELSE ParseFloatCents(m)

MutParsePriceTruncates(priceText) ==
  IF priceText = NoText \/ priceText = <<>> THEN NoPrice
  ELSE LET m == NumberMatch(priceText)
       IN IF m.int = <<>> THEN NoPrice
          ELSE IF ParseFloatCents(m) < MinFare * 100
                  \/ ParseFloatCents(m) > MaxFare * 100 THEN NoPrice
          ELSE 100 * NatOf(m.int)

\* Math.round(price * 100) of a number with at most two decimals is the
\* number of hundredths itself.
parsePrice(priceText) ==
  IF priceText = NoText \/ priceText = <<>> THEN NoPrice
  ELSE LET m == NumberMatch(priceText)
       IN IF m.int = <<>> THEN NoPrice
          ELSE LET price == ParseFloatCents(m)
               IN IF price < MinFare * 100 \/ price > MaxFare * 100
                  THEN NoPrice
                  ELSE price

(***************************************************************************)
(* Price parser harness: candidate texts and the parser applied to them    *)
(***************************************************************************)
MaxAmountDigits == 5
MaxGap == 1

CurrencySyms == {Euro, Dollar, Pound}
AmountDigits == {"0", "1", "2"}
FracPairs == {<<"0", "0">>, <<"5", "0">>, <<"0", "1">>}
FracSeps == {".", ","}

RECURSIVE DigitStrings(_)
\* all sequences of exactly n characters of AmountDigits
DigitStrings(n) ==
  IF n = 0 THEN {<<>>}
  ELSE {<<d>> \o r : d \in AmountDigits, r \in DigitStrings(n - 1)}

IntParts == UNION {DigitStrings(n) : n \in 1..MaxAmountDigits}

Spaces(n) == [i \in 1..n |-> Space]

\* A currency amount as a page shows it: the symbol before or after the
\* number, with optional blanks between, and an optional two-digit fraction.
\* cents is the amount the text denotes, in hundredths.
AmountCand(sym, order, gap, int, sep, frac) ==
  LET number == IF frac = <<>> THEN int ELSE int \o <<sep>> \o frac
  IN [kind  |-> "amount",
      text  |-> IF order = "before" THEN <<sym>> \o Spaces(gap) \o number
                ELSE number \o Spaces(gap) \o <<sym>>,
      int   |-> int,
      frac  |-> frac,
      sep   |-> sep,
      cents |-> 100 * NatOf(int) + NatOf(frac)]

\* Texts without any digit, the empty text and the missing text.
JunkTexts == {NoText, <<>>, <<Euro>>, <<"E", "U", "R">>, <<"f", "r", "o", "m">>,
              <<Dollar, Space, ".", ",">>}

JunkCand(t) ==
  [kind |-> "junk", text |-> t, int |-> <<>>, frac |-> <<>>, sep |-> ".",
   cents |-> 0]

AmountCands ==
  {AmountCand(sym, order, gap, int, sep, frac) :
     sym \in CurrencySyms, order \in {"before", "after"}, gap \in 0..MaxGap,
     int \in IntParts, sep \in FracSeps, frac \in FracPairs \cup {<<>>}}

\* amounts outside the digit alphabet above: in the band, with a comma
\* fraction, below the band, above it, and with more than four digits
ExampleCands ==
  {AmountCand(Euro, "before", 0, <<"4", "5">>, ".", <<>>),
   AmountCand(Euro, "after", 1, <<"4", "5">>, ",", <<"5", "0">>),
   AmountCand(Euro, "before", 0, <<"5">>, ".", <<>>),
   AmountCand(Euro, "before", 0, <<"3", "0", "0", "0">>, ".", <<>>),
   AmountCand(Euro, "before", 0, <<"1", "2", "3", "4", "5">>, ".", <<>>)}

Candidates == AmountCands \cup ExampleCands \cup {JunkCand(t) : t \in JunkTexts}

\* the same candidate written with the other fraction separator
OtherSep(c) ==
  AmountCand(c.text[IF c.text[1] \in CurrencySyms THEN 1 ELSE Len(c.text)],
             IF c.text[1] \in CurrencySyms THEN "before" ELSE "after",
             Len(c.text) - 1 - Len(c.int)
               - (IF c.frac = <<>> THEN 0 ELSE 1 + Len(c.frac)),
             c.int, IF c.sep = "." THEN "," ELSE ".", c.frac)

InBand(cents) == cents >= MinFare * 100 /\ cents <= MaxFare * 100

\* the text is one amount of the pattern [sym]\s*\d{1,4}([.,]\d{2})? or reversed
MatchesAmountPattern(c) ==
  c.kind = "amount" /\ Len(c.int) >= 1 /\ Len(c.int) <= MaxIntDigits

(***************************************************************************)
(* Date utilities: calendar days, weekdays and trip combinations           *)
(***************************************************************************)
\* A calendar date is [y, m, d]; a Date at the start of its day is the
\* number of days from 1 January 2024 (a Monday), on a host without clock
\* shifts.
IsLeap(y) == (y % 4 = 0 /\ y % 100 # 0) \/ y % 400 = 0

DaysInMonth(y, m) ==
  CASE m = 2 -> (IF IsLeap(y) THEN 29 ELSE 28)
    [] m \in {4, 6, 9, 11} -> 30
    [] OTHER -> 31

RECURSIVE DaysBeforeMonth(_, _)
DaysBeforeMonth(y, m) ==
  IF m = 1 THEN 0 ELSE DaysBeforeMonth(y, m - 1) + DaysInMonth(y, m - 1)

RECURSIVE DaysBeforeYear(_)
DaysBeforeYear(y) ==
  IF y <= 2024 THEN 0
  ELSE DaysBeforeYear(y - 1) + (IF IsLeap(y - 1) THEN 366 ELSE 365)

\* startOfDay(date) as a day number
DayNo(date) == DaysBeforeYear(date.y) + DaysBeforeMonth(date.y, date.m) + date.d - 1

\* date-fns addMonths: the same day of the month, or the month's last day
addMonths(date, amount) ==
  LET total == (date.m - 1) + amount
      y == date.y + (total \div 12)
      m == (total % 12) + 1
  IN [y |-> y, m |-> m,
      d |-> IF date.d <= DaysInMonth(y, m) THEN date.d ELSE DaysInMonth(y, m)]

\* date-fns getDay of a day number: 0 is Sunday
getDay(day) == (day + 1) % 7

DAY_MAP ==
  [sunday |-> 0, monday |-> 1, tuesday |-> 2, wednesday |-> 3, thursday |-> 4,
   friday |-> 5, saturday |-> 6]

\* date-fns eachDayOfInterval({ start, end }), both ends included
eachDayOfInterval(start, end) ==
  [i \in 1..(end - start + 1) |-> start + i - 1]

\* daysOfWeek is a sequence of day names, startDate a calendar date
getDatesForDaysOfWeek(daysOfWeek, monthsAhead, startDate) ==
  LET start == DayNo(startDate)
      end == DayNo(addMonths(startDate, monthsAhead))
      dayNumbers == {DAY_MAP[daysOfWeek[i]] : i \in 1..Len(daysOfWeek)}
  IN SelectSeq(eachDayOfInterval(start, end),
               LAMBDA date : getDay(date) \in dayNumbers)

MutIsAfterOrSame(a, b) == a >= b

\* isAfter(returnDate, outbound)
isAfter(a, b) == a > b

\* the longest trip kept, in days
MaxTripDays == 7

\* today is what new Date() gives in both calls of getDatesForDaysOfWeek
generateTripCombinations(outboundDays, returnDays, monthsAhead, today) ==
  LET outboundDates == getDatesForDaysOfWeek(outboundDays, monthsAhead, today)
      returnDates == getDatesForDaysOfWeek(returnDays, monthsAhead, today)
      validReturns(outbound) ==
        SelectSeq(returnDates, LAMBDA returnDate : isAfter(returnDate, outbound))
      kept(outbound) ==
        /\ validReturns(outbound) # <<>>
        /\ validReturns(outbound)[1] - outbound <= MaxTripDays
      paired == SelectSeq(outboundDates, kept)
  IN [i \in 1..Len(paired) |->
        [outbound |-> paired[i], return |-> validReturns(paired[i])[1]]]

(***************************************************************************)
(* Date harness: the inputs of generateTripCombinations                    *)
(***************************************************************************)
MaxMonthsAhead == 3

DayNames == DOMAIN DAY_MAP

\* days of 2024 at the start, the middle and the end of every month
Todays ==
  {date \in [y : {2024}, m : 1..12, d : {1, 15, 28, 29, 30, 31}] :
     date.d <= DaysInMonth(date.y, date.m)}

TripInputs ==
  [today : Todays, outbound : DayNames, return : DayNames,
   monthsAhead : 0..MaxMonthsAhead]

NoTripIn ==
  [today |-> [y |-> 2024, m |-> 1, d |-> 1], outbound |-> "friday",
   return |-> "sunday", monthsAhead |-> 0]

(***************************************************************************)
(* The rendered pages: what the extractors' text scans can find            *)
(***************************************************************************)
\* Text nodes the results pages may show.  Google Flights and Skyscanner are
\* opened with euro prices; Kayak shows dollar prices, one in an element of
\* its own, one right after a digit, where the element pattern misses it
\* and the whole-text pattern finds it.
EuroTexts == {<<Euro, "4", "5">>, <<"4", "5", Space, Euro>>, <<Euro, "5">>}
KayakTexts == {<<Dollar, "8", "0">>, <<"5", Dollar, "8", "0">>, <<Dollar, "5">>}

IsWordChar(c) == IsDigit(c) \/ c \in {"E", "U", "R", "f", "r", "o", "m", "_"}

\* number of blanks of s starting at position i
RECURSIVE BlankRun(_, _)
BlankRun(s, i) ==
  IF i > Len(s) \/ s[i] # Space THEN 0 ELSE 1 + BlankRun(s, i + 1)

\* number of consecutive digits of s starting at position i
DigitsFrom(s, i) == DigitRun(s, i, Len(s))

\* /sym\s*\d+/ matches at position i
SymThenDigitAt(s, i, syms) ==
  /\ i <= Len(s) /\ s[i] \in syms
  /\ DigitsFrom(s, i + 1 + BlankRun(s, i + 1)) >= 1

\* /\d+\s*sym/ matches at position i
DigitThenSymAt(s, i, syms) ==
  LET d == DigitsFrom(s, i)
      e == i + d + BlankRun(s, i + d)
  IN d >= 1 /\ e <= Len(s) /\ s[e] \in syms

\* /EUR\s*\d+/ matches at position i
EurThenDigitAt(s, i) ==
  /\ i + 2 <= Len(s) /\ s[i] = "E" /\ s[i + 1] = "U" /\ s[i + 2] = "R"
  /\ DigitsFrom(s, i + 3 + BlankRun(s, i + 3)) >= 1

\* text.match(/€\s*\d+|EUR\s*\d+|\d+\s*€/)
GoogleTextMatches(t) ==
  \E i \in 1..Len(t) :
    SymThenDigitAt(t, i, {Euro}) \/ EurThenDigitAt(t, i)
      \/ DigitThenSymAt(t, i, {Euro})

\* text.match(/[£€]\s*\d+|EUR\s*\d+|\d+\s*[£€]/)
SkyscannerTextMatches(t) ==
  \E i \in 1..Len(t) :
    SymThenDigitAt(t, i, {Pound, Euro}) \/ EurThenDigitAt(t, i)
      \/ DigitThenSymAt(t, i, {Pound, Euro})

KayakMinDigits == 2
KayakMaxDigits == 4

\* The capture group of
\* /(?:^|[^\d])([€$£]\s*\d{2,4}|\d{2,4}\s*[€$£])(?:[^\d]|$)/ when the group
\* starts at position g; <<>> when it does not match there.
KayakGroupAt(t, g) ==
  LET okStart == g = 1 \/ ~IsDigit(t[g - 1])
      b1 == BlankRun(t, g + 1)
      d1 == DigitsFrom(t, g + 1 + b1)
      d2 == DigitsFrom(t, g)
      b2 == BlankRun(t, g + d2)
      e2 == g + d2 + b2
  IN IF ~okStart THEN <<>>
     ELSE IF t[g] \in CurrencySyms /\ d1 >= KayakMinDigits /\ d1 <= KayakMaxDigits
       THEN SubSeq(t, g, g + b1 + d1)
     ELSE IF /\ d2 >= KayakMinDigits /\ d2 <= KayakMaxDigits
             /\ e2 <= Len(t) /\ t[e2] \in CurrencySyms
             /\ (e2 = Len(t) \/ ~IsDigit(t[e2 + 1]))
       THEN SubSeq(t, g, e2)
     ELSE <<>>

\* matches[1] of the leftmost match in an element's text, NoText without one
KayakCapture(t) ==
  LET hits == {g \in 1..Len(t) : KayakGroupAt(t, g) # <<>>}
  IN IF hits = {} THEN NoText
     ELSE KayakGroupAt(t, CHOOSE g \in hits : \A h \in hits : g <= h)

\* '$' + strictMatch[1] for allText.match(/\$\s*(\d{2,4})\b/), NoText without
KayakFallback(t) ==
  LET ok(i) == LET q == i + 1 + BlankRun(t, i + 1)
                   d == DigitsFrom(t, q)
               IN /\ t[i] = Dollar
                  /\ d >= KayakMinDigits /\ d <= KayakMaxDigits
                  /\ (q + d > Len(t) \/ ~IsWordChar(t[q + d]))
      hits == {i \in 1..Len(t) : ok(i)}
  IN IF t = NoText \/ hits = {} THEN NoText
     ELSE LET i == CHOOSE g \in hits : \A h \in hits : g <= h
              q == i + 1 + BlankRun(t, i + 1)
          IN <<Dollar>> \o SubSeq(t, q, q + DigitsFrom(t, q) - 1)

(***************************************************************************)
(* The store: user_preferences, flight_searches, flight_results            *)
(***************************************************************************)
NumTasks == 2
MaxRuns == 2
MaxFaults == 1
CronHours == 25

TaskIds == 1..NumTasks
Users == {"u1", "u2"}

MsPerHour == 3600000
BackoffHours == 24
Limit == 50
PlatformPause == 2000
TaskPause == 3000
GoogleSettle == 13000
SkyscannerSettle == 5000
KayakSettle == 8000

\* user_preferences rows, read through the join of the due-search query.
\* max_price_round_trip is in cents.
PreferenceRows(alert2) ==
  [u \in Users |->
     IF u = "u1"
     THEN [user_id |-> u, max_price_round_trip |-> 6000, alert_enabled |-> TRUE,
           alert_email |-> <<"mail", u>>]
     ELSE [user_id |-> u, max_price_round_trip |-> 8000,
           alert_enabled |-> alert2, alert_email |-> <<"mail", u>>]]

Url(platform, id) == <<platform, id>>

\* a flight_searches row as the preferences route creates it
SearchRow(id, user, nextCheck) ==
  [id |-> id, user_id |-> user, destination_city |-> <<"city", id>>,
   google_flights_url |-> Url("google", id),
   skyscanner_url |-> Url("skyscanner", id),
   kayak_url |-> Url("kayak", id),
   status |-> "pending", last_checked_at |-> NoTime,
   next_check_at |-> nextCheck]

MutNextCheckInOneHour(t) == t + MsPerHour

\* tomorrow.setHours(tomorrow.getHours() + 24), on a host without clock shifts
getNextCheckTime(t) == t + BackoffHours * MsPerHour

\* .eq('status', 'pending').or('next_check_at.is.null,next_check_at.lt.<now>')
IsDue(row, t) ==
  /\ row.status = "pending"
  /\ (row.next_check_at = NoTime \/ row.next_check_at < t)

DueIds(tbl, t) == {id \in DOMAIN tbl : IsDue(tbl[id], t)}

\* the elements of a finite set of ids, ascending
Ascending(S) ==
  [i \in 1..Cardinality(S) |->
     CHOOSE x \in S : Cardinality({y \in S : y < x}) = i - 1]

MutSelectDueNoLimit(tbl, t) == Ascending(DueIds(tbl, t))

MutSelectDueOfFirstRows(tbl, t) ==
  Ascending({id \in DueIds(tbl, t) : id <= Limit})

\* What the query returns: at most Limit of the due rows.  The query has no
\* ORDER BY; ids number the rows in the order the store yields them, and
\* Init assigns owners and due times to the ids.
SelectDue(tbl, t) ==
  LET due == Ascending(DueIds(tbl, t))
  IN IF Len(due) <= Limit THEN due ELSE SubSeq(due, 1, Limit)

(***************************************************************************)
(* saveFlightResults and the deal collection                               *)
(***************************************************************************)
ResultRow(search, prefs, platform, price, url) ==
  [search_id |-> search.id, user_id |-> prefs.user_id,
   destination_city |-> search.destination_city,
   price_cents |-> price, currency |-> "EUR", platform |-> platform,
   booking_url |-> url,
   is_deal |-> price <= prefs.max_price_round_trip]

MutResultsAlwaysGoogle(search, prefs, g, sk, k) ==
  <<ResultRow(search, prefs, "google", g, search.google_flights_url)>>

MutResultsSkipSkyscanner(search, prefs, g, sk, k) ==
  (IF g # NoPrice
   THEN <<ResultRow(search, prefs, "google", g, search.google_flights_url)>>
   ELSE <<>>)
  \o (IF k # NoPrice
      THEN <<ResultRow(search, prefs, "kayak", k, search.kayak_url)>>
      ELSE <<>>)

\* the rows saveFlightResults prepares: one per platform with a truthy price
Results(search, prefs, g, sk, k) ==
  (IF g # NoPrice
   THEN <<ResultRow(search, prefs, "google", g, search.google_flights_url)>>
   ELSE <<>>)
  \o (IF sk # NoPrice
      THEN <<ResultRow(search, prefs, "skyscanner", sk, search.skyscanner_url)>>
      ELSE <<>>)
  \o (IF k # NoPrice
      THEN <<ResultRow(search, prefs, "kayak", k, search.kayak_url)>>
      ELSE <<>>)

\* JavaScript Infinity, as the largest integer: above every price the parser
\* lets through and every budget of the model
Infinity == 2147483647

Min3(a, b, c) ==
  LET ab == IF a <= b THEN a ELSE b IN IF ab <= c THEN ab ELSE c

OrInfinity(p) == IF p # NoPrice THEN p ELSE Infinity

\* Math.min(googlePrice || Infinity, skyscannerPrice || Infinity,
\*          kayakPrice || Infinity)
bestPrice(g, sk, k) == Min3(OrInfinity(g), OrInfinity(sk), OrInfinity(k))

MutQualifiesIgnoresAlertFlag(prefs, best) ==
  best <= prefs.max_price_round_trip

MutQualifiesIgnoresBudget(prefs, best) ==
  best < Infinity /\ prefs.alert_enabled

MutQualifiesStrictlyUnder(prefs, best) ==
  best < prefs.max_price_round_trip /\ prefs.alert_enabled

\* bestPrice <= userBudget && search.user_preferences.alert_enabled
Qualifies(prefs, best) ==
  best <= prefs.max_price_round_trip /\ prefs.alert_enabled

\* x / 100 of a number of cents: whole units and the remaining hundredths
Div100(c) == [whole |-> c \div 100, hundredths |-> c % 100]

Deal(search, best) ==
  [search_id |-> search.id, destination |-> search.destination_city,
   price |-> Div100(best), googleUrl |-> search.google_flights_url,
   skyscannerUrl |-> search.skyscanner_url]

\* position of the user's entry in the deal map, 0 when there is none
EntryOf(map, user) ==
  IF \E i \in 1..Len(map) : map[i].user_id = user
  THEN CHOOSE i \in 1..Len(map) : map[i].user_id = user
  ELSE 0

MutPushDealNewEntryEachTime(map, prefs, deal) ==
  Append(map, [user_id |-> prefs.user_id, email |-> prefs.alert_email,
               budget |-> Div100(prefs.max_price_round_trip),
               deals |-> <<deal>>])

MutPushDealCreatesEmptyEntries(map, prefs, deal) ==
  Append(map, [user_id |-> prefs.user_id, email |-> prefs.alert_email,
               budget |-> Div100(prefs.max_price_round_trip),
               deals |-> <<>>])

\* dealsFound[user_id] created when absent, then deals.push(deal)
PushDeal(map, prefs, deal) ==
  LET i == EntryOf(map, prefs.user_id)
  IN IF i = 0
     THEN Append(map, [user_id |-> prefs.user_id, email |-> prefs.alert_email,
                       budget |-> Div100(prefs.max_price_round_trip),
                       deals |-> <<deal>>])
     ELSE [map EXCEPT ![i].deals = Append(@, deal)]

(***************************************************************************)
(* checkFlightPrices: one run of the checker process                       *)
(***************************************************************************)
NoInsert == [rows |-> <<>>, accepted |-> FALSE]

\* no second process has been started
NoSecond == [pc |-> "none", searches |-> <<>>, idx |-> 0, dealsFound |-> <<>>]

search == flight_searches[searches[idx]]
prefs == user_preferences[search.user_id]

\* the owners of the rows in the order of the table: the preferences route
\* deletes a user's searches and inserts the new ones in one insert, so the
\* rows of one user follow one another
OwnerMaps ==
  {owner \in [TaskIds -> Users] :
     \A i, j \in TaskIds : (i < j /\ owner[i] = owner[j]) =>
                              \A k \in i..j : owner[k] = owner[i]}

Init ==
  /\ now = MsPerHour
  /\ \E alert2 \in BOOLEAN : user_preferences = PreferenceRows(alert2)
  /\ \E owner \in OwnerMaps :
     \E lastNext \in {NoTime, MsPerHour} :
       flight_searches =
         [id \in TaskIds |->
            SearchRow(id, owner[id], IF id = NumTasks THEN lastNext ELSE NoTime)]
  /\ flight_results = <<>>
  /\ pc = "idle"
  /\ searches = <<>>
  /\ idx = 0
  /\ googlePrice = NoPrice
  /\ skyscannerPrice = NoPrice
  /\ kayakPrice = NoPrice
  /\ saved = NoInsert
  /\ dealsFound = <<>>
  /\ processedCount = 0
  /\ failedCount = 0
  /\ alerts = <<>>
  /\ taskLog = <<>>
  /\ runs = 0
  /\ faults = 0
  /\ browser = FALSE
  /\ pages = 0
  /\ peakPages = 0
  /\ responses = <<>>
  /\ exitCodes = <<>>
  /\ cand = JunkCand(NoText)
  /\ parsed = [done |-> FALSE, value |-> NoPrice]
  /\ tripIn = NoTripIn
  /\ trips = <<>>
  /\ second = NoSecond

\* what the steps of the checker process leave alone
harnessVars == <<cand, parsed, tripIn, trips, second>>

\* POST of the run-now route: exec('node scripts/check-flights.js', callback)
\* starts the checker process and the route answers at once.  A later
\* request comes CronHours after the process before it has ended.
PostResponse == [status |-> 200, success |-> TRUE]

PostRunNow ==
  /\ pc \in {"idle", "exited"}
  /\ runs < MaxRuns
  /\ now' = IF pc = "idle" THEN now ELSE now + CronHours * MsPerHour
  /\ responses' = Append(responses, PostResponse)
  /\ pc' = "spawned"
  /\ UNCHANGED <<user_preferences, flight_searches, flight_results, searches,
                 idx, googlePrice, skyscannerPrice, kayakPrice, saved,
                 dealsFound, processedCount, failedCount, alerts, taskLog,
                 runs, faults, browser, pages, peakPages, exitCodes, harnessVars>>

MutExecCallbackReportsError(response, code) ==
  IF code = 0 THEN response ELSE [status |-> 500, success |-> FALSE]

\* the callback of exec, run when the process has ended: it logs and nothing
\* else; the response of the request is what it was
ExecCallback(response, code) == response

\* the checker process ends with the exit code
Exit(code) ==
  /\ pc' = "exited"
  /\ exitCodes' = Append(exitCodes, code)
  /\ responses' = [responses EXCEPT ![Len(responses)] = ExecCallback(@, code)]

MutDealMapKept == dealsFound

\* const dealsFound = {}, evaluated when the process loads the module
EmptyDealMap == <<>>

\* The checker process runs: the module is loaded (an empty deal map), the
\* due searches are fetched and, when there are any, the browser is
\* launched.
StartRun ==
  /\ pc = "spawned"
  /\ runs' = runs + 1
  /\ dealsFound' = EmptyDealMap
  /\ alerts' = alerts
  /\ processedCount' = 0
  /\ failedCount' = 0
  /\ googlePrice' = NoPrice /\ skyscannerPrice' = NoPrice /\ kayakPrice' = NoPrice
  /\ saved' = NoInsert
  /\ searches' = SelectDue(flight_searches, now)
  /\ IF searches' = <<>>
     THEN idx' = 0 /\ browser' = FALSE /\ Exit(0)
     ELSE /\ idx' = 1 /\ browser' = TRUE /\ pc' = "google"
          /\ UNCHANGED <<responses, exitCodes>>
  /\ UNCHANGED <<now, user_preferences, flight_searches, flight_results,
                 taskLog, faults, pages, peakPages, harnessVars>>

\* The due-search query returns an error or puppeteer.launch throws: the
\* outer catch logs the fatal error and ends the process with code 1.
AbortRun ==
  /\ pc = "spawned"
  /\ faults < MaxFaults
  /\ faults' = faults + 1
  /\ runs' = runs + 1
  /\ dealsFound' = EmptyDealMap
  /\ processedCount' = 0
  /\ failedCount' = 0
  /\ searches' = <<>>
  /\ idx' = 0
  /\ Exit(1)
  /\ UNCHANGED <<now, user_preferences, flight_searches, flight_results,
                 googlePrice, skyscannerPrice, kayakPrice, saved, alerts,
                 taskLog, browser, pages, peakPages, harnessVars>>

\* What the run did with the current search, recorded when its status is
\* written: how many extractors returned, their prices, the rows handed to
\* the store and whether the store took them, the status and its time.
LogEntry(status, at, best) ==
  [run |-> runs, id |-> search.id, user_id |-> search.user_id,
   returned |-> CASE pc = "google" -> 0
                  [] pc = "skyscanner" -> 1
                  [] pc = "kayak" -> 2
                  [] OTHER -> 3,
   google |-> googlePrice, skyscanner |-> skyscannerPrice,
   kayak |-> kayakPrice, rows |-> saved.rows, accepted |-> saved.accepted,
   best |-> best, status |-> status, at |-> at]

MutAdvanceLeavesLoop ==
  /\ googlePrice' = NoPrice /\ skyscannerPrice' = NoPrice /\ kayakPrice' = NoPrice
  /\ saved' = NoInsert
  /\ idx' = 0 /\ pc' = "close"

Advance ==
  /\ googlePrice' = NoPrice /\ skyscannerPrice' = NoPrice /\ kayakPrice' = NoPrice
  /\ saved' = NoInsert
  /\ IF idx < Len(searches)
     THEN idx' = idx + 1 /\ pc' = "google"
     ELSE idx' = 0 /\ pc' = "close"

MutMarkFailedUncounted ==
  /\ failedCount' = failedCount
  /\ flight_searches' =
       [flight_searches EXCEPT ![search.id].status = "failed",
                               ![search.id].last_checked_at = now,
                               ![search.id].next_check_at = getNextCheckTime(now)]
  /\ taskLog' = Append(taskLog, LogEntry("failed", now, NoPrice))
  /\ Advance
  /\ UNCHANGED <<now, processedCount, dealsFound>>

MutMarkFailedEndsLoop ==
  /\ failedCount' = failedCount + 1
  /\ flight_searches' =
       [flight_searches EXCEPT ![search.id].status = "failed",
                               ![search.id].last_checked_at = now,
                               ![search.id].next_check_at = getNextCheckTime(now)]
  /\ taskLog' = Append(taskLog, LogEntry("failed", now, NoPrice))
  /\ googlePrice' = NoPrice /\ skyscannerPrice' = NoPrice /\ kayakPrice' = NoPrice
  /\ saved' = NoInsert
  /\ idx' = 0 /\ pc' = "close"
  /\ UNCHANGED <<now, processedCount, dealsFound>>

MutMarkFailedEveryRow ==
  /\ failedCount' = failedCount + 1
  /\ flight_searches' =
       [id \in DOMAIN flight_searches |->
          [flight_searches[id] EXCEPT !.status = "failed",
                                      !.last_checked_at = now,
                                      !.next_check_at = getNextCheckTime(now)]]
  /\ taskLog' = Append(taskLog, LogEntry("failed", now, NoPrice))
  /\ Advance
  /\ UNCHANGED <<now, processedCount, dealsFound>>

\* the catch block of the per-search try: count, mark failed, go on
MarkFailed ==
  /\ failedCount' = failedCount + 1
  /\ flight_searches' =
       [flight_searches EXCEPT ![search.id].status = "failed",
                               ![search.id].last_checked_at = now,
                               ![search.id].next_check_at = getNextCheckTime(now)]
  /\ taskLog' = Append(taskLog, LogEntry("failed", now, NoPrice))
  /\ Advance
  /\ UNCHANGED <<now, processedCount, dealsFound>>

\* browser.newPage() throws: the call is the first statement of the
\* extractor, before its try, so the exception reaches the per-search
\* catch.  (page.close() in the finally block is outside the try as well.)
ExtractorThrows(at) ==
  /\ pc = at
  /\ faults < MaxFaults
  /\ faults' = faults + 1
  /\ MarkFailed
  /\ UNCHANGED <<user_preferences, flight_results, searches, alerts, runs,
                 browser, pages, peakPages, responses, exitCodes, harnessVars>>

\* const page = await browser.newPage()
NewPage(n) == n + 1

MutClosePageLeaks(n) == n

\* finally { await page.close() }
ClosePage(n) == n - 1

\* The pages of the browser while an extractor runs: it opens one page,
\* works on it and closes it in its finally block before it returns.
\* peakPages is the largest number of pages that have been open at once.
PageUse ==
  /\ peakPages' = IF NewPage(pages) > peakPages THEN NewPage(pages) ELSE peakPages
  /\ pages' = ClosePage(NewPage(pages))

ExtractorFrame ==
  UNCHANGED <<user_preferences, flight_searches, flight_results, searches, idx,
              saved, dealsFound, processedCount, failedCount, alerts, taskLog,
              runs, faults, browser, responses, exitCodes, harnessVars>>

\* checkGoogleFlights, then sleep(2000)
CheckGoogle ==
  /\ pc = "google"
  /\ PageUse
  /\ \E priceText \in {t \in EuroTexts : GoogleTextMatches(t)} \cup {NoText} :
       googlePrice' = (IF priceText = NoText THEN NoPrice
                       ELSE parsePrice(priceText))
  /\ now' = now + GoogleSettle + PlatformPause
  /\ pc' = "skyscanner"
  /\ UNCHANGED <<skyscannerPrice, kayakPrice>>
  /\ ExtractorFrame

\* checkSkyscanner, then sleep(2000)
CheckSkyscanner ==
  /\ pc = "skyscanner"
  /\ PageUse
  /\ \E priceText \in {t \in EuroTexts : SkyscannerTextMatches(t)} \cup {NoText} :
       skyscannerPrice' = (IF priceText = NoText THEN NoPrice
                           ELSE parsePrice(priceText))
  /\ now' = now + SkyscannerSettle + PlatformPause
  /\ pc' = "kayak"
  /\ UNCHANGED <<googlePrice, kayakPrice>>
  /\ ExtractorFrame

\* checkKayak, then sleep(2000)
CheckKayak ==
  /\ pc = "kayak"
  /\ PageUse
  /\ \E priceText \in
         {KayakCapture(e) : e \in KayakTexts}
           \cup {KayakFallback(b) : b \in KayakTexts} \cup {NoText} :
       kayakPrice' = (IF priceText = NoText THEN NoPrice
                      ELSE parsePrice(priceText))
  /\ now' = now + KayakSettle + PlatformPause
  /\ pc' = "save"
  /\ UNCHANGED <<googlePrice, skyscannerPrice>>
  /\ ExtractorFrame

\* saveFlightResults: the insert is skipped without rows; a rejected insert
\* is logged and nothing else
SaveFlightResults ==
  /\ pc = "save"
  /\ LET results == Results(search, prefs, googlePrice, skyscannerPrice,
                            kayakPrice)
     IN IF results = <<>>
        THEN /\ saved' = NoInsert
             /\ UNCHANGED <<flight_results, faults>>
        ELSE \/ /\ saved' = [rows |-> results, accepted |-> TRUE]
                /\ flight_results' =
                     flight_results
                       \o [i \in 1..Len(results) |->
                             [row |-> results[i], run |-> runs]]
                /\ faults' = faults
             \/ /\ faults < MaxFaults
                /\ faults' = faults + 1
                /\ saved' = [rows |-> results, accepted |-> FALSE]
                /\ flight_results' = flight_results
  /\ pc' = "collect"
  /\ UNCHANGED <<now, user_preferences, flight_searches, searches, idx,
                 googlePrice, skyscannerPrice, kayakPrice, dealsFound,
                 processedCount, failedCount, alerts, taskLog, runs, browser,
                 pages, peakPages, responses, exitCodes, harnessVars>>

\* Step 5 and the status update, up to the await of sleep(3000): the deal
\* collection, the update to 'completed', processedCount++
CollectAndComplete ==
  /\ pc = "collect"
  /\ LET best == bestPrice(googlePrice, skyscannerPrice, kayakPrice)
     IN /\ dealsFound' = IF Qualifies(prefs, best)
                         THEN PushDeal(dealsFound, prefs, Deal(search, best))
                         ELSE dealsFound
        /\ taskLog' = Append(taskLog, LogEntry("completed", now, best))
  /\ flight_searches' =
       [flight_searches EXCEPT ![search.id].status = "completed",
                               ![search.id].last_checked_at = now,
                               ![search.id].next_check_at = getNextCheckTime(now)]
  /\ processedCount' = processedCount + 1
  /\ now' = now + TaskPause
  /\ Advance
  /\ UNCHANGED <<user_preferences, flight_results, searches, failedCount,
                 alerts, runs, faults, browser, pages, peakPages, responses, exitCodes,
                 harnessVars>>

\* browser.close(); without deals the dispatch loop has nothing to do and
\* the script exits
CloseBrowser ==
  /\ pc = "close"
  /\ browser' = FALSE
  /\ IF dealsFound = <<>>
     THEN idx' = 0 /\ Exit(0)
     ELSE idx' = 1 /\ pc' = "dispatch" /\ UNCHANGED <<responses, exitCodes>>
  /\ UNCHANGED <<now, user_preferences, flight_searches, flight_results,
                 searches, googlePrice, skyscannerPrice, kayakPrice, saved,
                 dealsFound, processedCount, failedCount, alerts, taskLog,
                 runs, faults, pages, peakPages, harnessVars>>

\* what resend.emails.send does with a message: it resolves with the id of
\* the accepted message, resolves with an error object, or rejects
SendOutcomes == {"accepted", "error", "throws"}

\* sendBulkFlightAlert: the value resend.emails.send resolves with is not
\* looked at and true is returned; an exception is caught and false returned
sendBulkFlightAlert(outcome) == outcome # "throws"

MutSendStopsOnFailure(outcome) ==
  /\ pc = "dispatch"
  /\ IF outcome = "accepted"
     THEN faults' = faults
     ELSE faults < MaxFaults /\ faults' = faults + 1
  /\ alerts' = Append(alerts,
                      [run |-> runs, user_id |-> dealsFound[idx].user_id,
                       email |-> dealsFound[idx].email,
                       budget |-> dealsFound[idx].budget,
                       deals |-> dealsFound[idx].deals,
                       outcome |-> outcome,
                       sent |-> sendBulkFlightAlert(outcome)])
  /\ IF idx < Len(dealsFound) /\ outcome = "accepted"
     THEN idx' = idx + 1 /\ pc' = pc /\ UNCHANGED <<responses, exitCodes>>
     ELSE idx' = 0 /\ Exit(IF outcome = "accepted" THEN 0 ELSE 1)
  /\ UNCHANGED <<now, user_preferences, flight_searches, flight_results,
                 searches, googlePrice, skyscannerPrice, kayakPrice, saved,
                 dealsFound, processedCount, failedCount, taskLog, runs,
                 browser, pages, peakPages, harnessVars>>

\* Step 6: one iteration of the loop over the entries of the deal map:
\* await sendBulkFlightAlert(userData), its result dropped; after the last
\* entry the script exits
Send(outcome) ==
  /\ pc = "dispatch"
  /\ IF outcome = "accepted"
     THEN faults' = faults
     ELSE faults < MaxFaults /\ faults' = faults + 1
  /\ alerts' = Append(alerts,
                      [run |-> runs, user_id |-> dealsFound[idx].user_id,
                       email |-> dealsFound[idx].email,
                       budget |-> dealsFound[idx].budget,
                       deals |-> dealsFound[idx].deals,
                       outcome |-> outcome,
                       sent |-> sendBulkFlightAlert(outcome)])
  /\ IF idx < Len(dealsFound)
     THEN idx' = idx + 1 /\ pc' = pc /\ UNCHANGED <<responses, exitCodes>>
     ELSE idx' = 0 /\ Exit(0)
  /\ UNCHANGED <<now, user_preferences, flight_searches, flight_results,
                 searches, googlePrice, skyscannerPrice, kayakPrice, saved,
                 dealsFound, processedCount, failedCount, taskLog, runs,
                 browser, pages, peakPages, harnessVars>>

\* the sender accepts the message
Dispatch == Send("accepted")

\* the sender reports an error for the message or throws
DispatchFails == \E outcome \in SendOutcomes \ {"accepted"} : Send(outcome)

Next ==
  \/ PostRunNow
  \/ StartRun
  \/ CheckGoogle
  \/ CheckSkyscanner
  \/ CheckKayak
  \/ ExtractorThrows("google")
  \/ ExtractorThrows("skyscanner")
  \/ ExtractorThrows("kayak")
  \/ SaveFlightResults
  \/ CollectAndComplete
  \/ CloseBrowser
  \/ Dispatch

Spec == Init /\ [][Next]_vars

(***************************************************************************)
(* The run-now route and runs that end with a fatal error: one user with   *)
(* alerts enabled owns every search                                        *)
(***************************************************************************)
TriggerInit ==
  /\ Init
  /\ user_preferences = PreferenceRows(TRUE)
  /\ \A id \in TaskIds : flight_searches[id].user_id = "u1"

TriggerNext == Next \/ AbortRun

TriggerSpec == TriggerInit /\ [][TriggerNext]_vars

(***************************************************************************)
(* Runs whose notifications the sender may refuse: both users have alerts  *)
(* enabled and every search is due at the first run                        *)
(***************************************************************************)
NotifyInit ==
  /\ Init
  /\ user_preferences = PreferenceRows(TRUE)
  /\ \A id \in TaskIds : flight_searches[id].next_check_at = NoTime

NotifyNext == Next \/ DispatchFails

NotifySpec == NotifyInit /\ [][NotifyNext]_vars

(***************************************************************************)
(* Two overlapping checker processes: the run-now route is requested again *)
(* while the process of the request before is running.  The second         *)
(* process takes one step per iteration of its loops; the clock is         *)
(* advanced by the steps of the first.  One user owns every search, and    *)
(* while the two processes run Skyscanner and Kayak show no fare.          *)
(***************************************************************************)
\* what the extractors can return for the pages of the model
GooglePrices ==
  {parsePrice(t) : t \in {x \in EuroTexts : GoogleTextMatches(x)}} \cup {NoPrice}

SkyscannerPrices ==
  {parsePrice(t) : t \in {x \in EuroTexts : SkyscannerTextMatches(x)}}
    \cup {NoPrice}

KayakPrices ==
  {parsePrice(KayakCapture(e)) : e \in KayakTexts}
    \cup {parsePrice(KayakFallback(b)) : b \in KayakTexts} \cup {NoPrice}

\* the run number the second process writes its history under, apart from
\* the numbers of the processes that follow one another
SecondRun == MaxRuns + 1

OverlapInit ==
  /\ Init
  /\ user_preferences = PreferenceRows(TRUE)
  /\ \A id \in TaskIds :
       /\ flight_searches[id].user_id = "u1"
       /\ flight_searches[id].next_check_at = NoTime

SecondFrame ==
  UNCHANGED <<now, user_preferences, pc, searches, idx, googlePrice,
              skyscannerPrice, kayakPrice, saved, dealsFound, processedCount,
              failedCount, runs, faults, browser, pages, peakPages, exitCodes,
              cand, parsed, tripIn, trips>>

\* POST of the run-now route while a checker process is running: exec starts
\* another process, whatever the first one is doing
PostRunNowAgain ==
  /\ pc \notin {"idle", "exited"}
  /\ second.pc = "none"
  /\ responses' = Append(responses, PostResponse)
  /\ second' = [second EXCEPT !.pc = "spawned"]
  /\ UNCHANGED <<flight_searches, flight_results, alerts, taskLog>>
  /\ SecondFrame

\* the second process fetches the due searches
SecondStart ==
  /\ second.pc = "spawned"
  /\ LET due == SelectDue(flight_searches, now)
     IN second' = [pc |-> IF due = <<>> THEN "exited" ELSE "task",
                   searches |-> due,
                   idx |-> IF due = <<>> THEN 0 ELSE 1,
                   dealsFound |-> EmptyDealMap]
  /\ UNCHANGED <<flight_searches, flight_results, alerts, taskLog, responses>>
  /\ SecondFrame

\* where the second process goes after a search
SecondAdvance(deals) ==
  IF second.idx < Len(second.searches)
  THEN [second EXCEPT !.idx = @ + 1, !.dealsFound = deals]
  ELSE [second EXCEPT !.idx = IF deals = <<>> THEN 0 ELSE 1,
                      !.pc = IF deals = <<>> THEN "exited" ELSE "dispatch",
                      !.dealsFound = deals]

\* one iteration of the loop over the searches in the second process: the
\* three extractors, saveFlightResults, the deal collection and the update
\* to 'completed'
SecondTask(googleShows, skyscannerShows, kayakShows) ==
  /\ second.pc = "task"
  /\ \E g \in googleShows, sk \in skyscannerShows, k \in kayakShows :
       LET row == flight_searches[second.searches[second.idx]]
           owner == user_preferences[row.user_id]
           results == Results(row, owner, g, sk, k)
           best == bestPrice(g, sk, k)
       IN /\ flight_results' =
               flight_results
                 \o [i \in 1..Len(results) |->
                       [row |-> results[i], run |-> SecondRun]]
          /\ taskLog' =
               Append(taskLog,
                      [run |-> SecondRun, id |-> row.id,
                       user_id |-> row.user_id, returned |-> 3,
                       google |-> g, skyscanner |-> sk, kayak |-> k,
                       rows |-> results, accepted |-> results # <<>>,
                       best |-> best, status |-> "completed", at |-> now])
          /\ flight_searches' =
               [flight_searches EXCEPT ![row.id].status = "completed",
                                       ![row.id].last_checked_at = now,
                                       ![row.id].next_check_at =
                                          getNextCheckTime(now)]
          /\ second' =
               SecondAdvance(IF Qualifies(owner, best)
                             THEN PushDeal(second.dealsFound, owner,
                                           Deal(row, best))
                             ELSE second.dealsFound)
  /\ UNCHANGED <<alerts, responses>>
  /\ SecondFrame

\* one iteration of the dispatch loop in the second process
SecondDispatch ==
  /\ second.pc = "dispatch"
  /\ alerts' = Append(alerts,
                      [run |-> SecondRun,
                       user_id |-> second.dealsFound[second.idx].user_id,
                       email |-> second.dealsFound[second.idx].email,
                       budget |-> second.dealsFound[second.idx].budget,
                       deals |-> second.dealsFound[second.idx].deals,
                       outcome |-> "accepted",
                       sent |-> sendBulkFlightAlert("accepted")])
  /\ second' = IF second.idx < Len(second.dealsFound)
               THEN [second EXCEPT !.idx = @ + 1]
               ELSE [second EXCEPT !.idx = 0, !.pc = "exited"]
  /\ UNCHANGED <<flight_searches, flight_results, taskLog, responses>>
  /\ SecondFrame

OverlapNext ==
  \/ PostRunNow
  \/ StartRun
  \/ CheckGoogle
  \/ CheckSkyscanner /\ skyscannerPrice' = NoPrice
  \/ CheckKayak /\ kayakPrice' = NoPrice
  \/ ExtractorThrows("google")
  \/ ExtractorThrows("skyscanner")
  \/ ExtractorThrows("kayak")
  \/ SaveFlightResults
  \/ CollectAndComplete
  \/ CloseBrowser
  \/ Dispatch
  \/ PostRunNowAgain
  \/ SecondStart
  \/ SecondTask(GooglePrices, SkyscannerPrices \cap {NoPrice},
                KayakPrices \cap {NoPrice})
  \/ SecondDispatch

OverlapSpec == OverlapInit /\ [][OverlapNext]_vars

(***************************************************************************)
(* The price parser on its own: every candidate text, parsed once          *)
(***************************************************************************)
ParseInit ==
  /\ now = MsPerHour
  /\ user_preferences = PreferenceRows(TRUE)
  /\ flight_searches = [id \in TaskIds |-> SearchRow(id, "u1", NoTime)]
  /\ flight_results = <<>>
  /\ pc = "idle"
  /\ searches = <<>>
  /\ idx = 0
  /\ googlePrice = NoPrice
  /\ skyscannerPrice = NoPrice
  /\ kayakPrice = NoPrice
  /\ saved = NoInsert
  /\ dealsFound = <<>>
  /\ processedCount = 0
  /\ failedCount = 0
  /\ alerts = <<>>
  /\ taskLog = <<>>
  /\ runs = 0
  /\ faults = 0
  /\ browser = FALSE
  /\ pages = 0
  /\ peakPages = 0
  /\ responses = <<>>
  /\ exitCodes = <<>>
  /\ cand \in Candidates
  /\ parsed = [done |-> FALSE, value |-> NoPrice]
  /\ tripIn = NoTripIn
  /\ trips = <<>>
  /\ second = NoSecond

ParseCandidate ==
  /\ ~parsed.done
  /\ parsed' = [done |-> TRUE, value |-> parsePrice(cand.text)]
  /\ UNCHANGED <<cand, tripIn, trips, second, runVars>>

ParseNext == ParseCandidate

ParseSpec == ParseInit /\ [][ParseNext]_vars

(***************************************************************************)
(* The trip enumeration on its own: every input, enumerated twice          *)
(***************************************************************************)
IdleRunner ==
  /\ now = MsPerHour
  /\ user_preferences = PreferenceRows(TRUE)
  /\ flight_searches = [id \in TaskIds |-> SearchRow(id, "u1", NoTime)]
  /\ flight_results = <<>>
  /\ pc = "idle"
  /\ searches = <<>>
  /\ idx = 0
  /\ googlePrice = NoPrice
  /\ skyscannerPrice = NoPrice
  /\ kayakPrice = NoPrice
  /\ saved = NoInsert
  /\ dealsFound = <<>>
  /\ processedCount = 0
  /\ failedCount = 0
  /\ alerts = <<>>
  /\ taskLog = <<>>
  /\ runs = 0
  /\ faults = 0
  /\ browser = FALSE
  /\ pages = 0
  /\ peakPages = 0
  /\ responses = <<>>
  /\ exitCodes = <<>>

DateInit ==
  /\ IdleRunner
  /\ cand = JunkCand(NoText)
  /\ parsed = [done |-> FALSE, value |-> NoPrice]
  /\ tripIn \in TripInputs
  /\ trips = <<>>
  /\ second = NoSecond

GenerateTrips ==
  /\ Len(trips) < 2
  /\ trips' = Append(trips,
                     generateTripCombinations(<<tripIn.outbound>>,
                                              <<tripIn.return>>,
                                              tripIn.monthsAhead, tripIn.today))
  /\ UNCHANGED <<tripIn, cand, parsed, second, runVars>>

DateNext == GenerateTrips

DateSpec == DateInit /\ [][DateNext]_vars

(***************************************************************************)
(* The due-search query over a large store: the process starts, fetches    *)
(* the due searches, and is followed no further than that                  *)
(***************************************************************************)
MaxStoreRows == 52

\* Rows as earlier runs and the preferences route leave them: status and
\* next_check_at.  Half an hour ago is past, the hour of the first request
\* is "now" (not yet due: the filter is strict), two hours is to come.
DuePalette ==
  <<[status |-> "pending", next |-> NoTime],
    [status |-> "pending", next |-> MsPerHour \div 2]>>

NotDuePalette ==
  <<[status |-> "pending", next |-> MsPerHour],
    [status |-> "pending", next |-> 2 * MsPerHour],
    [status |-> "completed", next |-> MsPerHour \div 2],
    [status |-> "failed", next |-> MsPerHour \div 2]>>

MixedPalette ==
  <<[status |-> "pending", next |-> NoTime],
    [status |-> "completed", next |-> MsPerHour \div 2],
    [status |-> "pending", next |-> MsPerHour],
    [status |-> "failed", next |-> 2 * MsPerHour],
    [status |-> "pending", next |-> MsPerHour \div 2],
    [status |-> "pending", next |-> 2 * MsPerHour],
    [status |-> "completed", next |-> 2 * MsPerHour],
    [status |-> "failed", next |-> MsPerHour \div 2]>>

\* row id of a store filled from a palette, starting at position shift,
\* after lead rows that are not due
StoreRow(id, palette, shift, lead) ==
  LET from == IF id <= lead THEN NotDuePalette ELSE palette
      k == from[((id + shift) % Len(from)) + 1]
  IN [SearchRow(id, IF id % 2 = 1 THEN "u1" ELSE "u2", k.next)
        EXCEPT !.status = k.status,
               !.last_checked_at = IF k.status = "pending" THEN NoTime
                                   ELSE MsPerHour \div 4]

SelectInit ==
  /\ now = MsPerHour
  /\ user_preferences = PreferenceRows(TRUE)
  /\ \E n \in 0..MaxStoreRows :
     \E palette \in {DuePalette, NotDuePalette, MixedPalette} :
     \E shift \in 0..(Len(palette) - 1) :
     \E lead \in 0..1 :
       flight_searches = [id \in 1..n |-> StoreRow(id, palette, shift, lead)]
  /\ flight_results = <<>>
  /\ pc = "idle"
  /\ searches = <<>>
  /\ idx = 0
  /\ googlePrice = NoPrice
  /\ skyscannerPrice = NoPrice
  /\ kayakPrice = NoPrice
  /\ saved = NoInsert
  /\ dealsFound = <<>>
  /\ processedCount = 0
  /\ failedCount = 0
  /\ alerts = <<>>
  /\ taskLog = <<>>
  /\ runs = 0
  /\ faults = 0
  /\ browser = FALSE
  /\ pages = 0
  /\ peakPages = 0
  /\ responses = <<>>
  /\ exitCodes = <<>>
  /\ cand = JunkCand(NoText)
  /\ parsed = [done |-> FALSE, value |-> NoPrice]
  /\ tripIn = NoTripIn
  /\ trips = <<>>
  /\ second = NoSecond

SelectNext == PostRunNow \/ StartRun

SelectSpec == SelectInit /\ [][SelectNext]_vars

(***************************************************************************)
(* Runs over a store with more due searches than one run takes: no site    *)
(* shows a fare, and the first search of a run may fail                    *)
(***************************************************************************)
DrainInit ==
  /\ SelectInit
  /\ Len(flight_searches) > Limit
  /\ \A id \in 2..Len(flight_searches) : IsDue(flight_searches[id], now)

DrainNext ==
  \/ PostRunNow
  \/ StartRun
  \/ CheckGoogle /\ googlePrice' = NoPrice
  \/ CheckSkyscanner /\ skyscannerPrice' = NoPrice
  \/ CheckKayak /\ kayakPrice' = NoPrice
  \/ ExtractorThrows("kayak") /\ idx = 1
  \/ SaveFlightResults
  \/ CollectAndComplete
  \/ CloseBrowser

DrainSpec == DrainInit /\ [][DrainNext]_vars

\* the scheduler requests the next run after a run has ended, and a process
\* that can take a step takes one
DrainFairSpec == DrainSpec /\ WF_vars(DrainNext)

(***************************************************************************)
(* Properties of the runner                                                *)
(***************************************************************************)
DayMs == 24 * 3600000

\* the rows of flight_results written for search id by run r
RowsOf(r, id) ==
  SelectSeq(flight_results, LAMBDA x : x.run = r /\ x.row.search_id = id)

\* the prices the three extractors returned for a logged search
PricesOf(e) == {e.google, e.skyscanner, e.kayak} \ {NoPrice}

AllNotFound(e) == e.returned = 3 /\ PricesOf(e) = {}

\* C1: a selected task whose three extractors all returned no price gets no
\* flight_results row, is marked 'completed' and not 'failed', and its
\* next_check_at is 24 hours after the time of the update.
C1_AllNotFoundCompletes ==
  \A i \in 1..Len(taskLog) :
    LET e == taskLog[i]
    IN AllNotFound(e) =>
         /\ e.rows = <<>>
         /\ RowsOf(e.run, e.id) = <<>>
         /\ e.status = "completed"
         /\ flight_searches[e.id].status = "completed"
         /\ flight_searches[e.id].last_checked_at = e.at
         /\ flight_searches[e.id].next_check_at = e.at + DayMs

C1_Witness ==
  \E i \in 1..Len(taskLog) :
    /\ AllNotFound(taskLog[i])
    /\ flight_searches[taskLog[i].id].status = "completed"
    /\ flight_results # <<>>

Range(f) == {f[i] : i \in DOMAIN f}

\* C2: a task that a run marked 'completed' or 'failed' is selected again by
\* a later run that starts after the task's advanced next_check_at.
C2_EligibleAgain ==
  [][StartRun =>
       \A id \in TaskIds :
         (/\ flight_searches[id].status \in {"completed", "failed"}
          /\ flight_searches[id].next_check_at # NoTime
          /\ flight_searches[id].next_check_at < now')
           => id \in Range(searches')]_vars

\* the smallest element of a non-empty set of prices
MinOf(S) == CHOOSE m \in S : \A x \in S : m <= x

\* a logged search whose minimum price is at or under its user's budget,
\* the user having alerts enabled
QualifyingEntry(e) ==
  /\ e.status = "completed"
  /\ PricesOf(e) # {}
  /\ MinOf(PricesOf(e)) <= user_preferences[e.user_id].max_price_round_trip
  /\ user_preferences[e.user_id].alert_enabled

\* the qualifying searches of user u in run r, in processing order
QualifyingOf(r, u) ==
  SelectSeq(taskLog, LAMBDA e : e.run = r /\ e.user_id = u /\ QualifyingEntry(e))

AlertsOf(r, u) == SelectSeq(alerts, LAMBDA a : a.run = r /\ a.user_id = u)

\* run r has gone through its dispatch step
Dispatched(r) == r < runs \/ (r = runs /\ pc = "exited")

\* C3: in a run that has gone through dispatch, sendBulkFlightAlert was
\* called once for each user with a qualifying task and not at all for the
\* others; the one call carries one deal per qualifying task of the user, in
\* the order the tasks were processed.
C3_OneAlertPerUser ==
  \A r \in 1..runs : \A u \in Users :
    Dispatched(r) =>
      LET q == QualifyingOf(r, u)
          a == AlertsOf(r, u)
      IN /\ Len(a) = (IF q = <<>> THEN 0 ELSE 1)
         /\ q # <<>> =>
              /\ Len(a[1].deals) = Len(q)
              /\ \A i \in 1..Len(q) : a[1].deals[i].search_id = q[i].id

C3_Witness ==
  \E r \in 1..runs : \E u \in Users :
    /\ Dispatched(r)
    /\ Len(QualifyingOf(r, u)) = 2
    /\ Len(AlertsOf(r, u)) = 1

\* the logged search a deal of an alert of run r came from
EntryOfDeal(r, d) ==
  {i \in 1..Len(taskLog) : taskLog[i].run = r /\ taskLog[i].id = d.search_id}

\* C4: a task is a deal of a user's notification only if its minimum price
\* over the platforms that returned one is at or under the user's budget; a
\* task over budget or without any price is in no notification.  With
\* budget 6000 and two tasks at 4500 and 8000 there is exactly one
\* notification and it holds the first task only.
C4_DealsWithinBudget ==
  /\ \A j \in 1..Len(alerts) : \A k \in 1..Len(alerts[j].deals) :
       LET d == alerts[j].deals[k]
       IN /\ EntryOfDeal(alerts[j].run, d) # {}
          /\ \A i \in EntryOfDeal(alerts[j].run, d) :
               /\ taskLog[i].user_id = alerts[j].user_id
               /\ PricesOf(taskLog[i]) # {}
               /\ MinOf(PricesOf(taskLog[i]))
                    <= user_preferences[alerts[j].user_id].max_price_round_trip
               /\ d.price.whole * 100 + d.price.hundredths
                    = MinOf(PricesOf(taskLog[i]))
  /\ \A i \in 1..Len(taskLog) :
       (\/ PricesOf(taskLog[i]) = {}
        \/ MinOf(PricesOf(taskLog[i]))
             > user_preferences[taskLog[i].user_id].max_price_round_trip)
         => \A j \in 1..Len(alerts) : \A k \in 1..Len(alerts[j].deals) :
              ~(alerts[j].run = taskLog[i].run
                /\ alerts[j].deals[k].search_id = taskLog[i].id)

\* budget 6000, one task at 4500 and one at 8000, one notification with the
\* first task only
C4_Witness ==
  /\ pc = "exited" /\ runs = 1
  /\ Len(taskLog) = 2
  /\ taskLog[1].user_id = "u1" /\ taskLog[2].user_id = "u1"
  /\ user_preferences["u1"].max_price_round_trip = 6000
  /\ PricesOf(taskLog[1]) = {4500}
  /\ PricesOf(taskLog[2]) = {8000}
  /\ Len(alerts) = 1
  /\ Len(alerts[1].deals) = 1
  /\ alerts[1].deals[1].search_id = taskLog[1].id

\* C5: sendBulkFlightAlert is never called with an empty deal list: every
\* entry of the deal map holds a deal when the dispatch loop runs, and a run
\* in which no task qualified makes no call.
C5_NoEmptyAlert ==
  /\ \A j \in 1..Len(alerts) : alerts[j].deals # <<>>
  /\ pc = "dispatch" => \A i \in 1..Len(dealsFound) : dealsFound[i].deals # <<>>
  /\ \A r \in 1..runs :
       (\A i \in 1..Len(taskLog) :
          taskLog[i].run = r => ~QualifyingEntry(taskLog[i]))
         => \A j \in 1..Len(alerts) : alerts[j].run # r

\* a finished run that found prices, none of them a deal, and called nobody
C5_Witness ==
  /\ pc = "exited" /\ runs = 1
  /\ \E i \in 1..Len(taskLog) : PricesOf(taskLog[i]) # {}
  /\ \A i \in 1..Len(taskLog) : ~QualifyingEntry(taskLog[i])
  /\ alerts = <<>>

\* the platforms of a logged search with the price each returned
Priced(e) ==
  {pl \in {"google", "skyscanner", "kayak"} : e[pl] # NoPrice}

\* the rows of one platform among the rows handed to the store
PlatformRows(rows, pl) == SelectSeq(rows, LAMBDA x : x.platform = pl)

C7_OneRowPerPricedPlatform ==
  \A i \in 1..Len(taskLog) :
    LET e == taskLog[i]
    IN e.returned = 3 =>
         /\ Len(e.rows) = Cardinality(Priced(e))
         /\ \A pl \in {"google", "skyscanner", "kayak"} :
              LET r == PlatformRows(e.rows, pl)
              IN IF pl \in Priced(e)
                 THEN /\ Len(r) = 1
                      /\ r[1].price_cents = e[pl]
                      /\ r[1].booking_url = <<pl, e.id>>
                      /\ r[1].search_id = e.id
                 ELSE r = <<>>
         /\ Cardinality(Priced(e)) = 1 =>
              /\ e.accepted => Len(RowsOf(e.run, e.id)) = 1
              /\ e.accepted => RowsOf(e.run, e.id)[1].row = e.rows[1]
              /\ \A pl \in Priced(e) : e.best = e[pl]

\* Skyscanner alone returned a price and its row is in flight_results
C7_Witness ==
  \E i \in 1..Len(taskLog) :
    /\ taskLog[i].returned = 3
    /\ Priced(taskLog[i]) = {"skyscanner"}
    /\ taskLog[i].accepted
    /\ Len(RowsOf(taskLog[i].run, taskLog[i].id)) = 1
    /\ taskLog[i].best = taskLog[i].skyscanner

\* C10: every flight_results row has a price_cents from 1000 to 200000,
\* whichever extractor and whichever of its extraction paths found the price.
C10_StoredPricesInBand ==
  \A k \in 1..Len(flight_results) :
    /\ flight_results[k].row.price_cents \in Int
    /\ flight_results[k].row.price_cents >= 1000
    /\ flight_results[k].row.price_cents <= 200000

\* rows of all three platforms; Kayak's price is found by the element scan
\* in one text and by the whole-text fallback alone in another
C10_Witness ==
  /\ \A pl \in {"google", "skyscanner", "kayak"} :
       \E k \in 1..Len(flight_results) : flight_results[k].row.platform = pl
  /\ \E k \in 1..Len(flight_results) :
       /\ flight_results[k].row.platform = "kayak"
       /\ flight_results[k].row.price_cents = 8000
  /\ parsePrice(KayakCapture(<<Dollar, "8", "0">>)) = 8000
  /\ KayakCapture(<<"5", Dollar, "8", "0">>) = NoText
  /\ parsePrice(KayakFallback(<<"5", Dollar, "8", "0">>)) = 8000

\* the loop over the selected searches of the current run is over
LoopDone == runs >= 1 /\ pc \in {"close", "dispatch", "exited"}

\* the positions in taskLog of the status writes of run r for search id
WritesOf(r, id) ==
  {i \in 1..Len(taskLog) : taskLog[i].run = r /\ taskLog[i].id = id}

\* C13: in a run every selected task has its status written exactly once, to
\* 'completed' or to 'failed'; the write sets last_checked_at to its time and
\* next_check_at to 24 hours after it.
C13_StatusWrittenOnce ==
  /\ [](\A r \in 1..runs : \A id \in DOMAIN flight_searches :
          Cardinality(WritesOf(r, id)) <= 1)
  /\ [](LoopDone =>
          \A k \in 1..Len(searches) :
            Cardinality(WritesOf(runs, searches[k])) = 1)
  /\ [](\A i \in 1..Len(taskLog) :
          LET e == taskLog[i]
          IN /\ e.status \in {"completed", "failed"}
             /\ flight_searches[e.id].status = e.status
             /\ flight_searches[e.id].last_checked_at = e.at
             /\ flight_searches[e.id].next_check_at = e.at + DayMs)

\* a finished run with one task completed and the other failed
C13_Witness ==
  /\ pc = "exited" /\ runs = 1
  /\ Len(searches) = 2
  /\ {taskLog[i].status : i \in 1..Len(taskLog)} = {"completed", "failed"}
  /\ \A k \in 1..2 : flight_searches[searches[k]].next_check_at > DayMs

\* the selected searches of the current run with the given status in the store
SelectedWith(status) ==
  {k \in 1..Len(searches) : flight_searches[searches[k]].status = status}

\* C14: when the loop of a run is over, the processed count is the number of
\* selected tasks that are 'completed' in the store, the failed count the
\* number that are 'failed', and the two add up to the number selected.
C14_CountsMatchStatuses ==
  [](LoopDone =>
       /\ processedCount = Cardinality(SelectedWith("completed"))
       /\ failedCount = Cardinality(SelectedWith("failed"))
       /\ processedCount + failedCount = Len(searches))

\* a run that reports one processed and one failed
C14_Witness ==
  /\ pc = "exited" /\ runs = 1
  /\ exitCodes = <<0>>
  /\ processedCount = 1 /\ failedCount = 1
  /\ Len(searches) = 2

\* the step is the per-search catch: the current search ends 'failed'
FailedStep ==
  /\ Len(taskLog') = Len(taskLog) + 1
  /\ taskLog'[Len(taskLog')].status = "failed"

\* C17: an exception that escapes while a task is processed marks that task
\* 'failed' and no other, adds one to the failed count, and the loop goes on
\* with the next selected task; in a run that had a failure every selected
\* task still has a terminal status when the loop is over, and the deals
\* collected before and after the failure are dispatched.
C17_FailureIsolated ==
  /\ [][FailedStep =>
          /\ failedCount' = failedCount + 1
          /\ processedCount' = processedCount
          /\ dealsFound' = dealsFound
          /\ flight_searches'[searches[idx]].status = "failed"
          /\ \A id \in DOMAIN flight_searches :
               id # searches[idx] => flight_searches'[id] = flight_searches[id]
          /\ IF idx < Len(searches)
             THEN idx' = idx + 1 /\ pc' = "google"
             ELSE pc' = "close"]_vars
  /\ [](LoopDone =>
          \A k \in 1..Len(searches) :
            flight_searches[searches[k]].status \in {"completed", "failed"})
  /\ [](\A r \in 1..runs : \A u \in Users :
          (Dispatched(r) /\ QualifyingOf(r, u) # <<>>) =>
            \E j \in 1..Len(alerts) :
              /\ alerts[j].run = r /\ alerts[j].user_id = u
              /\ Len(alerts[j].deals) = Len(QualifyingOf(r, u)))

\* the first task failed, the second was processed after it and its deal
\* was sent
C17_Witness ==
  /\ pc = "exited" /\ runs = 1
  /\ Len(taskLog) = 2
  /\ taskLog[1].status = "failed"
  /\ taskLog[2].status = "completed"
  /\ QualifyingEntry(taskLog[2])
  /\ Len(alerts) = 1
  /\ alerts[1].deals[1].search_id = taskLog[2].id

\* C15: the run-now request is answered with success when the checker
\* process has been started, before the process does anything, and nothing
\* the process does afterwards (a failed task, a fatal abort, exit code 1)
\* changes a response; a response carries no task outcome.
C15_TriggerAlwaysSuccess ==
  /\ [](\A i \in 1..Len(responses) : responses[i] = PostResponse)
  /\ [](Len(responses) = IF pc = "spawned" THEN runs + 1 ELSE runs)
  /\ [](Len(exitCodes) = IF pc \in {"idle", "spawned", "exited"}
                          THEN runs ELSE runs - 1)
  /\ [][responses' # responses =>
          /\ pc \in {"idle", "exited"} /\ pc' = "spawned"
          /\ responses' = Append(responses, PostResponse)
          /\ flight_searches' = flight_searches
          /\ taskLog' = taskLog]_vars

\* a run that ended with code 0 and a run that aborted with code 1, both
\* requests answered with success
C15_Witness ==
  /\ pc = "exited"
  /\ exitCodes = <<0, 1>>
  /\ responses = <<PostResponse, PostResponse>>
  /\ \E id \in TaskIds : flight_searches[id].status = "completed"

\* C16: an exception raised while an extractor works on a task, opening the
\* page included, becomes "no price" for that platform only: all three
\* extractors have returned for every task whose status is written, so the
\* per-search catch is never entered from inside an extractor call.
C16_ExtractorErrorsContained ==
  \A i \in 1..Len(taskLog) : taskLog[i].returned = 3

\* C18: when the first extractor of a task that is not the first of its run
\* is about to be called, at least the inter-task pause has elapsed since the
\* status write of the task before it, whether that write was 'completed' or
\* 'failed'.
C18_PauseBetweenTasks ==
  (pc = "google" /\ idx > 1) =>
    now >= taskLog[Len(taskLog)].at + TaskPause

\* C19: a notification is sent only when every selected task of the run has
\* its terminal status written and the browser has been closed; no status is
\* written at or after the first notification of a run, and the notification
\* carries every qualifying deal the run found for its user.
C19_NotifyAfterBatch ==
  /\ [][alerts' # alerts =>
          /\ ~browser
          /\ pages = 0
          /\ \A k \in 1..Len(searches) :
               /\ flight_searches[searches[k]].status \in {"completed", "failed"}
               /\ Cardinality(WritesOf(runs, searches[k])) = 1
          /\ taskLog' = taskLog
          /\ flight_searches' = flight_searches
          /\ Len(alerts') = Len(alerts) + 1
          /\ LET a == alerts'[Len(alerts')]
             IN /\ a.run = runs
                /\ Len(a.deals) = Len(QualifyingOf(runs, a.user_id))]_vars
  /\ []((\E j \in 1..Len(alerts) : alerts[j].run = runs) =>
          /\ ~browser
          /\ pc \in {"dispatch", "exited", "spawned"})

\* one notification with the deals of both searches of the run, the first
\* and the last selected
C19_Witness ==
  /\ pc = "exited" /\ runs = 1
  /\ Len(searches) = 2
  /\ Len(alerts) = 1
  /\ Len(alerts[1].deals) = 2
  /\ alerts[1].deals[1].search_id = searches[1]
  /\ alerts[1].deals[2].search_id = searches[2]
  /\ ~browser

\* C20: for a task the extractors are called one after another in the order
\* Google Flights, Skyscanner, Kayak, each sets only its own price, and each
\* closes the page it opened before it returns: never more than one page is
\* open, and none is open between two extractor calls or when the run ends.
C20_OnePageInOrder ==
  /\ [](peakPages <= 1)
  /\ [](pages = 0)
  /\ [](pc = "exited" => ~browser)
  /\ [][/\ googlePrice' # googlePrice /\ googlePrice' # NoPrice =>
             pc = "google" /\ pc' = "skyscanner"
        /\ skyscannerPrice' # skyscannerPrice /\ skyscannerPrice' # NoPrice =>
             pc = "skyscanner" /\ pc' = "kayak"
        /\ kayakPrice' # kayakPrice /\ kayakPrice' # NoPrice =>
             pc = "kayak" /\ pc' = "save"
        /\ (pc = "google" /\ pc' # pc /\ ~FailedStep) => pc' = "skyscanner"
        /\ (pc = "skyscanner" /\ pc' # pc /\ ~FailedStep) => pc' = "kayak"
        /\ (pc = "kayak" /\ pc' # pc /\ ~FailedStep) => pc' = "save"
        /\ pc' = "skyscanner" => pc = "google"
        /\ pc' = "kayak" => pc = "skyscanner"
        /\ pc' = "save" => pc = "kayak"
        /\ peakPages' # peakPages =>
             pc \in {"google", "skyscanner", "kayak"}]_vars

\* a finished run in which extractors returned a price and no price, each
\* having had its page open and closed
C20_Witness ==
  /\ pc = "exited" /\ runs = 1
  /\ peakPages = 1 /\ pages = 0
  /\ \E i \in 1..Len(taskLog) :
       /\ taskLog[i].returned = 3
       /\ taskLog[i].google = NoPrice
       /\ taskLog[i].skyscanner # NoPrice
       /\ taskLog[i].kayak # NoPrice

\* the step is a call of sendBulkFlightAlert that did not get its message
\* accepted
FailedSend ==
  /\ Len(alerts') = Len(alerts) + 1
  /\ alerts'[Len(alerts')].outcome # "accepted"

\* C21: a notification that fails, by an error of the sender or by an
\* exception, neither stops the dispatch loop nor aborts the run: the loop
\* goes on with the next entry of the deal map, the run ends with exit code
\* 0, and the sender has been called once for every user of the deal map.
C21_SendFailureIsolated ==
  /\ [][FailedSend =>
          IF idx < Len(dealsFound)
          THEN pc' = "dispatch" /\ idx' = idx + 1
          ELSE pc' = "exited" /\ exitCodes' = Append(exitCodes, 0)]_vars
  /\ [](pc = "exited" =>
          /\ exitCodes[Len(exitCodes)] = 0
          /\ \A i \in 1..Len(dealsFound) :
               Len(AlertsOf(runs, dealsFound[i].user_id)) = 1)

\* the notification of the first user threw, the second user's was sent
C21_Witness ==
  /\ pc = "exited" /\ runs = 1
  /\ exitCodes = <<0>>
  /\ Len(dealsFound) = 2
  /\ Len(alerts) = 2
  /\ alerts[1].outcome = "throws" /\ ~alerts[1].sent
  /\ alerts[2].outcome = "accepted" /\ alerts[2].sent
  /\ alerts[1].user_id # alerts[2].user_id

\* C22: sendBulkFlightAlert reports 'sent' exactly when the sender accepted
\* the message, and 'failed' when the sender returned an error or threw.
C22_SentIffAccepted ==
  \A j \in 1..Len(alerts) :
    alerts[j].sent <=> alerts[j].outcome = "accepted"

\* C23: a run that starts after the backoff of a search whose deal was in a
\* notification that failed selects that search again, so that the deal can
\* be in the later run's notification.
C23_FailedDealChecked ==
  [][StartRun =>
       \A j \in 1..Len(alerts) : \A k \in 1..Len(alerts[j].deals) :
         LET id == alerts[j].deals[k].search_id
         IN (/\ alerts[j].outcome # "accepted"
             /\ flight_searches[id].next_check_at < now)
              => id \in Range(searches')]_vars

\* C24: the deal map is empty when a run starts, and every deal of a
\* notification was collected from a search the same run processed: a later
\* run never sends a deal an earlier run collected.
C24_DealMapRunScoped ==
  /\ [][runs' # runs => dealsFound' = <<>>]_vars
  /\ [](\A j \in 1..Len(alerts) : \A k \in 1..Len(alerts[j].deals) :
          \E i \in 1..Len(taskLog) :
            /\ taskLog[i].run = alerts[j].run
            /\ taskLog[i].id = alerts[j].deals[k].search_id
            /\ taskLog[i].status = "completed")
  /\ [](\A i \in 1..Len(dealsFound) : \A k \in 1..Len(dealsFound[i].deals) :
          \E e \in 1..Len(taskLog) :
            /\ taskLog[e].run = runs
            /\ taskLog[e].id = dealsFound[i].deals[k].search_id)

\* two runs, each with one notification to the same user: the first with the
\* deal of the first search, the second with the deal of the second search
\* and nothing else
C24_Witness ==
  /\ pc = "exited" /\ runs = 2
  /\ Len(alerts) = 2
  /\ alerts[1].run = 1 /\ alerts[2].run = 2
  /\ alerts[1].user_id = alerts[2].user_id
  /\ Len(alerts[1].deals) = 1 /\ Len(alerts[2].deals) = 1
  /\ alerts[1].deals[1].search_id # alerts[2].deals[1].search_id

\* the deals of the current run's deal map that came from the logged search
DealsFor(e) ==
  {ik \in {<<i, k>> : i \in 1..Len(dealsFound), k \in 1..NumTasks} :
     /\ ik[2] <= Len(dealsFound[ik[1]].deals)
     /\ dealsFound[ik[1]].user_id = e.user_id
     /\ dealsFound[ik[1]].deals[ik[2]].search_id = e.id}

\* C25: a processed search has a deal in its owner's entry of the deal map
\* exactly when a platform returned a price, the minimum of the returned
\* prices is at or under the owner's budget and the owner has alerts
\* enabled; there is one such deal and its price is that minimum; a stored
\* observation has is_deal true exactly when its own price is at or under
\* the budget.
C25_DealIffMinWithinBudget ==
  /\ [](\A i \in 1..Len(taskLog) :
          LET e == taskLog[i]
          IN e.run = runs =>
               /\ Cardinality(DealsFor(e)) = IF QualifyingEntry(e) THEN 1 ELSE 0
               /\ \A ik \in DealsFor(e) :
                    dealsFound[ik[1]].deals[ik[2]].price
                      = Div100(MinOf(PricesOf(e))))
  /\ [](\A j \in 1..Len(flight_results) :
          LET row == flight_results[j].row
          IN row.is_deal <=>
               row.price_cents
                 <= user_preferences[row.user_id].max_price_round_trip)

\* a search whose only price is equal to its owner's budget is a deal, and a
\* search of the run whose minimum is under the budget is one with the
\* minimum as its price although a dearer platform was stored with is_deal
\* false
C25_Witness ==
  /\ pc = "exited" /\ runs = 1
  /\ Len(taskLog) = 2
  /\ taskLog[1].user_id = "u1" /\ taskLog[2].user_id = "u2"
  /\ PricesOf(taskLog[1]) = {4500, 8000}
  /\ PricesOf(taskLog[2]) = {8000}
  /\ user_preferences["u2"].max_price_round_trip = 8000
  /\ Cardinality(DealsFor(taskLog[1])) = 1
  /\ Cardinality(DealsFor(taskLog[2])) = 1
  /\ \E j \in 1..Len(flight_results) :
       /\ flight_results[j].row.search_id = taskLog[1].id
       /\ ~flight_results[j].row.is_deal
  /\ \E i \in 1..Len(dealsFound) :
       /\ dealsFound[i].user_id = "u1"
       /\ dealsFound[i].deals[1].price = Div100(4500)

\* the searches a process has selected and not yet left behind
Holding(p) ==
  IF p = 1
  THEN IF pc \in {"google", "skyscanner", "kayak", "save", "collect"}
       THEN {searches[k] : k \in idx..Len(searches)} ELSE {}
  ELSE IF second.pc = "task"
       THEN {second.searches[k] : k \in second.idx..Len(second.searches)}
       ELSE {}

\* C26: when two checker processes overlap, no search is in the selection of
\* both, no search gets its status written by both, and no deal of a search
\* is in two notifications.
C26_NoSharedSelection ==
  /\ Holding(1) \cap Holding(2) = {}
  /\ \A id \in TaskIds :
       Cardinality({i \in 1..Len(taskLog) : taskLog[i].id = id}) <= 1
  /\ \A id \in TaskIds :
       Cardinality({j \in 1..Len(alerts) :
                      \E k \in 1..Len(alerts[j].deals) :
                        alerts[j].deals[k].search_id = id}) <= 1

\* C28: every deal of a notification has an observation of the same search
\* stored in the same run with is_deal true; a search whose observations
\* the store rejected is in no notification.
C28_NotifiedDealsPersisted ==
  \A j \in 1..Len(alerts) : \A k \in 1..Len(alerts[j].deals) :
    \E x \in 1..Len(flight_results) :
      /\ flight_results[x].run = alerts[j].run
      /\ flight_results[x].row.search_id = alerts[j].deals[k].search_id
      /\ flight_results[x].row.is_deal

\* the booking links a deal of a notification carries
LinksOf(d) == {d.googleUrl, d.skyscannerUrl}

\* C29: a deal of a notification carries the booking link of every platform
\* whose price is the deal's price, the minimum over the platforms.
C29_DealLinksItsPlatform ==
  \A j \in 1..Len(alerts) : \A k \in 1..Len(alerts[j].deals) :
    LET d == alerts[j].deals[k]
    IN \A i \in EntryOfDeal(alerts[j].run, d) :
         LET e == taskLog[i]
             row == flight_searches[e.id]
             low == MinOf(PricesOf(e))
         IN /\ e.google = low => row.google_flights_url \in LinksOf(d)
            /\ e.skyscanner = low => row.skyscanner_url \in LinksOf(d)
            /\ e.kayak = low => row.kayak_url \in LinksOf(d)

(***************************************************************************)
(* Properties of the price parser                                          *)
(***************************************************************************)
\* C8: for a text that is a currency amount (symbol then one to four digits
\* with an optional two-digit fraction after '.' or ',', or the number then
\* the symbol) of a value from 10 to 2000, parsePrice returns the value
\* times 100; the text with the other fraction separator parses to the
\* same; "€45" gives 4500 and "45,50 €" gives 4550.
C8_ParsesAmountsExactly ==
  /\ (parsed.done /\ MatchesAmountPattern(cand) /\ InBand(cand.cents)) =>
       /\ parsed.value = cand.cents
       /\ parsePrice(OtherSep(cand).text) = parsed.value
  /\ (parsed.done /\ cand.text = <<Euro, "4", "5">>) => parsed.value = 4500
  /\ (parsed.done /\ cand.text = <<"4", "5", ",", "5", "0", Space, Euro>>)
       => parsed.value = 4550

\* an amount with a comma fraction, parsed to its cents
C8_Witness ==
  /\ parsed.done
  /\ MatchesAmountPattern(cand) /\ InBand(cand.cents)
  /\ cand.frac = <<"5", "0">> /\ cand.sep = ","
  /\ Len(cand.int) = MaxIntDigits
  /\ parsed.value = cand.cents
  /\ OtherSep(cand).text # cand.text

\* C9: for a text whose number is outside 10..2000, numbers of more than
\* four digits included, and for a text without digits, the empty text and
\* the missing text, parsePrice returns null.
C9_RejectsOutOfBand ==
  (parsed.done /\ (cand.kind = "junk" \/ ~InBand(cand.cents)))
    => parsed.value = NoPrice

C12_SelectionDueAndCapped ==
  [][StartRun =>
       /\ Len(searches') <= 50
       /\ \A k \in 1..Len(searches') :
            LET row == flight_searches[searches'[k]]
            IN /\ row.status = "pending"
               /\ row.status \notin {"completed", "failed"}
               /\ row.next_check_at = NoTime \/ row.next_check_at < now
               /\ \A j \in 1..Len(searches') : searches'[j] = searches'[k] => j = k
       /\ (\A id \in DOMAIN flight_searches :
             ~(/\ flight_searches[id].status = "pending"
               /\ (\/ flight_searches[id].next_check_at = NoTime
                   \/ flight_searches[id].next_check_at < now)))
            => /\ searches' = <<>>
               /\ pc' = "exited"
               /\ exitCodes' = Append(exitCodes, 0)
               /\ flight_searches' = flight_searches
               /\ flight_results' = flight_results
               /\ alerts' = alerts]_vars

\* more than 50 due rows among rows that are not due, and 50 selected
C12_Witness ==
  /\ runs = 1
  /\ Len(searches) = 50
  /\ Cardinality({id \in DOMAIN flight_searches :
                    /\ flight_searches[id].status = "pending"
                    /\ (\/ flight_searches[id].next_check_at = NoTime
                        \/ flight_searches[id].next_check_at < now)}) > 50
  /\ \E id \in DOMAIN flight_searches : flight_searches[id].status = "completed"

(***************************************************************************)
(* Properties of runs over a store larger than one selection               *)
(***************************************************************************)
\* the fields of a search the checker never writes
RouteOf(row) ==
  [id |-> row.id, user_id |-> row.user_id,
   destination_city |-> row.destination_city,
   google_flights_url |-> row.google_flights_url,
   skyscanner_url |-> row.skyscanner_url, kayak_url |-> row.kayak_url]

\* C27: no step of a run deletes or adds a search; a step changes a search
\* only if the run selected it, and then only its status, last_checked_at
\* and next_check_at: a search that is not pending, not yet due or beyond
\* the 50 the query returned is after the run what it was before.
C27_OnlySelectedTasksWritten ==
  /\ [][/\ DOMAIN flight_searches' = DOMAIN flight_searches
        /\ \A id \in DOMAIN flight_searches :
             /\ RouteOf(flight_searches'[id]) = RouteOf(flight_searches[id])
             /\ flight_searches'[id] # flight_searches[id] =>
                  /\ idx \in 1..Len(searches)
                  /\ id = searches[idx]]_vars
  /\ [](\A id \in DOMAIN flight_searches :
          (\A r \in 1..runs : WritesOf(r, id) = {})
            => flight_searches[id].last_checked_at < MsPerHour)

\* a run over 52 searches has ended: 50 were selected and have a terminal
\* status, the two beyond the cap are pending as before, and so is the
\* first row, which is not due
C27_Witness ==
  /\ pc = "exited" /\ runs = 1
  /\ Len(flight_searches) = Limit + 2
  /\ Len(searches) = Limit
  /\ ~IsDue(flight_searches[1], MsPerHour)
  /\ 1 \notin Range(searches)
  /\ \A k \in 1..Len(searches) :
       flight_searches[searches[k]].status \in {"completed", "failed"}
  /\ \E id \in DOMAIN flight_searches :
       /\ id \notin Range(searches)
       /\ id > 1
       /\ flight_searches[id].status = "pending"
       /\ flight_searches[id].last_checked_at = NoTime

\* C30: with more than 50 searches due, every search that is pending and due
\* is processed by some run: it does not stay pending forever.
C30_EveryDueTaskProcessed ==
  (\E id \in DOMAIN flight_searches : IsDue(flight_searches[id], now))
    ~> (\A id \in DOMAIN flight_searches :
          /\ ~IsDue(flight_searches[id], now)
          /\ id > 1 => flight_searches[id].status \in {"completed", "failed"})

\* the first run took 50 of the due searches and the second run the rest
C30_Witness ==
  /\ pc = "exited" /\ runs = 2
  /\ Len(flight_searches) > Limit
  /\ Cardinality({i \in 1..Len(taskLog) : taskLog[i].run = 1}) = Limit
  /\ \E i \in 1..Len(taskLog) : taskLog[i].run = 2
  /\ \A id \in DOMAIN flight_searches :
       flight_searches[id].status # "pending"

====
